---- MODULE Spec2Model ----
(***************************************************************************)
(* Model of forecaster.py: the Forecaster class of commute_forecaster.     *)
(*                                                                         *)
(* A run constructs a Forecaster (fetch the day's timesteps, compute the   *)
(* two direction labels and the two hour brackets) and then calls          *)
(* produce_results (bucket the timesteps, interpolate four metrics, print  *)
(* and write).  Hours and readings are integers; an interpolated value is  *)
(* an exact fraction; angles are integers in thousandths of a degree.      *)
(***************************************************************************)
EXTENDS Integers, Sequences, FiniteSets, TLC

\* ------------------------------------------------------------------ bounds
\* Available hours of the day are drawn from 0..MaxHour.
MaxHour == 4
\* Coordinates lie on the integer grid -MaxDelta..MaxDelta in both axes.
MaxDelta == 1
\* Hours and targets given to _weighted_avg on its own lie in 0..MaxAvgHour.
MaxAvgHour == 2
\* Readings given to _weighted_avg on its own lie in -MaxVal..MaxVal.
MaxVal == 1
\* Angles given to _to_bearing on its own are the multiples of 0.05 degree
\* from -MaxAngleK * 0.05 to MaxAngleK * 0.05 degrees.
MaxAngleK == 7200

VARIABLES
    pc,             \* position of the run
    home_coords,    \* self.home_coords  <<lon, lat>>
    work_coords,    \* self.work_coords  <<lon, lat>>
    in_time,        \* self.in_time   (after rounding)
    out_time,       \* self.out_time  (after rounding)
    forecast,       \* self.forecast.days[self.day_num].timesteps
    timesteps,      \* self.timesteps: the hours of forecast, in order
    in_direction,   \* self.in_direction
    out_direction,  \* self.out_direction
    in_hours,       \* self.in_hours
    out_hours,      \* self.out_hours
    in_lists,       \* build_results: in_rain, in_temp, in_wind, in_gust
    out_lists,      \* build_results: out_rain, out_temp, out_wind, out_gust
    results,        \* self.results
    console,        \* the boxes printed so far
    csv_file,       \* forecast_results.csv
    angle_value     \* the argument of _to_bearing when applied on its own

vars == <<pc, home_coords, work_coords, in_time, out_time, forecast, timesteps,
          in_direction, out_direction, in_hours, out_hours, in_lists,
          out_lists, results, console, csv_file, angle_value>>

\* ------------------------------------------------------------- vocabulary
Metrics == <<"rain", "temp", "wind", "gust">>
MetricSet == {Metrics[i] : i \in 1..Len(Metrics)}
ResultKeys == {"in_rain", "out_rain", "in_temp", "out_temp",
               "in_wind", "out_wind", "in_gust", "out_gust"}
InKey(m) == CASE m = "rain" -> "in_rain" [] m = "temp" -> "in_temp"
              [] m = "wind" -> "in_wind" [] m = "gust" -> "in_gust"
OutKey(m) == CASE m = "rain" -> "out_rain" [] m = "temp" -> "out_temp"
               [] m = "wind" -> "out_wind" [] m = "gust" -> "out_gust"

None == "None"
Labels == {"N", "NNE", "E", "SSE", "S", "SSW", "W", "NNW"}
NoBracket == << >>
EmptyMap == [k \in {} |-> 0]
NoFile == [absent |-> TRUE]
NoLists == [m \in MetricSet |-> << >>]

Abs(x) == IF x < 0 THEN -x ELSE x
MinOf(S) == CHOOSE x \in S : \A y \in S : x <= y
MaxOf(S) == CHOOSE x \in S : \A y \in S : x >= y
Range(s) == {s[i] : i \in 1..Len(s)}

\* ------------------------------------------------------- exact fractions
RECURSIVE Gcd(_, _)
Gcd(a, b) == IF b = 0 THEN a ELSE Gcd(b, a % b)

\* The value of an exact integer.
Whole(v) == [n |-> v, d |-> 1]

\* num / den as numpy true division of two int64 gives it: a fraction in
\* lowest terms with a positive denominator; a zero divisor gives inf, -inf
\* or nan (d = 0) with a warning, not an exception.
TrueDivide(num, den) ==
    IF den = 0
    THEN [n |-> IF num > 0 THEN 1 ELSE IF num < 0 THEN -1 ELSE 0, d |-> 0]
    ELSE LET g == Gcd(Abs(num), Abs(den))
             s == IF den < 0 THEN -1 ELSE 1
         IN [n |-> s * (num \div g), d |-> s * (den \div g)]

IsFinite(q) == q.d > 0
\* q1 <= q2 for finite fractions.
FracLeq(q1, q2) == q1.n * q2.d <= q2.n * q1.d

\* ------------------------------------------------------- the forecast day
\* A timestep record of the provider: its hour and four readings.
\* Readings are whole numbers; Trend fixes how they change with the hour, so
\* that the readings of different hours and of different metrics differ.
Trends == {-1, 1}
MakeTimestep(h, trend) ==
    [hour |-> h,
     precipitation |-> 50 + trend * h,
     temperature |-> 10 + trend * h,
     wind_speed |-> 20 + trend * h,
     wind_gust |-> 30 + trend * h]

\* The elements of a set of hours in ascending order.
RECURSIVE Ascending(_)
Ascending(S) ==
    IF S = {} THEN << >>
    ELSE LET lo == MinOf(S) IN <<lo>> \o Ascending(S \ {lo})

HourSeqs == {Ascending(S) : S \in SUBSET (0..MaxHour)}
Forecasts ==
    {[i \in 1..Len(hs) |-> MakeTimestep(hs[i], trend)] :
        hs \in HourSeqs, trend \in Trends}
TargetHours == 0..(MaxHour + 1)
Grid == (-MaxDelta)..MaxDelta

temps(time_point) == time_point.temperature
wind_speed(time_point) == time_point.wind_speed
gust_speed(time_point) == time_point.wind_gust
rain_prob(time_point) == time_point.precipitation

Reading(m, time_point) ==
    CASE m = "rain" -> rain_prob(time_point)
      [] m = "temp" -> temps(time_point)
      [] m = "wind" -> wind_speed(time_point)
      [] m = "gust" -> gust_speed(time_point)

\* ------------------------------------------------------------ _either_side
\* steps[i] for a 0-based index i that may be negative, as numpy indexes:
\* -1 is the last element.
PyIndex(steps, i) == steps[(IF i < 0 THEN i + Len(steps) ELSE i) + 1]

\* np.where(steps > centre_point)[0]: the 0-based indices, ascending.
WhereGreater(steps, centre_point) ==
    {i \in 0..(Len(steps) - 1) : steps[i + 1] > centre_point}

\* Variant: the first hour greater than or equal to the target is taken as
\* the right hour (>= written for >).
either_side_geq(centre_point, steps) ==
    LET found == {i \in 0..(Len(steps) - 1) : steps[i + 1] >= centre_point}
    IN IF found = {} THEN NoBracket
       ELSE LET right_idx == MinOf(found)
                left_idx == right_idx - 1
            IN <<PyIndex(steps, left_idx), PyIndex(steps, right_idx)>>

\* Variant: when no hour is greater than the target the last two hours are
\* returned instead of raising.
either_side_clamped(centre_point, steps) ==
    LET found == WhereGreater(steps, centre_point)
    IN IF found = {}
       THEN (IF steps = << >> THEN NoBracket
             ELSE <<PyIndex(steps, IF Len(steps) > 1 THEN -2 ELSE -1),
                    PyIndex(steps, -1)>>)
       ELSE LET right_idx == MinOf(found)
                left_idx == right_idx - 1
            IN <<PyIndex(steps, left_idx), PyIndex(steps, right_idx)>>

\* Variant: the left index is kept at 0 when the right index is 0, so it
\* never wraps to the last hour.
either_side_no_wrap(centre_point, steps) ==
    LET found == WhereGreater(steps, centre_point)
    IN IF found = {} THEN NoBracket
       ELSE LET right_idx == MinOf(found)
                left_idx == IF right_idx = 0 THEN 0 ELSE right_idx - 1
            IN <<PyIndex(steps, left_idx), PyIndex(steps, right_idx)>>

\* The bracket <<left, right>>, or NoBracket when [0][0] raises IndexError.
either_side(centre_point, steps) ==
    LET found == WhereGreater(steps, centre_point)
    IN IF found = {} THEN NoBracket
       ELSE LET right_idx == MinOf(found)
                left_idx == right_idx - 1
            IN <<PyIndex(steps, left_idx), PyIndex(steps, right_idx)>>

\* ------------------------------------------------------------- _to_bearing
\* Variant: every lower bound x.6 written as x.5, so that the gaps between
\* the ranges shrink to single points.
to_bearing_closed(angle) ==
    LET orientation == Abs(angle)
    IN IF orientation < 22500 THEN "N"
       ELSE IF orientation > 337500 /\ orientation < 360000 THEN "N"
       ELSE IF orientation > 22500 /\ orientation < 67500 THEN "NNE"
       ELSE IF orientation > 67500 /\ orientation < 112500 THEN "E"
       ELSE IF orientation > 112500 /\ orientation < 157500 THEN "SSE"
       ELSE IF orientation > 157500 /\ orientation < 202500 THEN "S"
       ELSE IF orientation > 202500 /\ orientation < 247500 THEN "SSW"
       ELSE IF orientation > 247500 /\ orientation < 292500 THEN "W"
       ELSE IF orientation > 292500 /\ orientation < 337500 THEN "NNW"
       ELSE None

\* Variant: the angle is reduced modulo 360 degrees instead of taking its
\* absolute value.
to_bearing_mod360(angle) ==
    LET orientation == angle % 360000
    IN IF orientation < 22500 THEN "N"
       ELSE IF orientation > 337500 /\ orientation < 360000 THEN "N"
       ELSE IF orientation > 22600 /\ orientation < 67500 THEN "NNE"
       ELSE IF orientation > 67600 /\ orientation < 112500 THEN "E"
       ELSE IF orientation > 112600 /\ orientation < 157500 THEN "SSE"
       ELSE IF orientation > 157600 /\ orientation < 202500 THEN "S"
       ELSE IF orientation > 202600 /\ orientation < 247500 THEN "SSW"
       ELSE IF orientation > 247600 /\ orientation < 292500 THEN "W"
       ELSE IF orientation > 292600 /\ orientation < 337500 THEN "NNW"
       ELSE None

\* Angles are in thousandths of a degree.
to_bearing(angle) ==
    LET orientation == Abs(angle)
    IN IF orientation < 22500 THEN "N"
       ELSE IF orientation > 337500 /\ orientation < 360000 THEN "N"
       ELSE IF orientation > 22600 /\ orientation < 67500 THEN "NNE"
       ELSE IF orientation > 67600 /\ orientation < 112500 THEN "E"
       ELSE IF orientation > 112600 /\ orientation < 157500 THEN "SSE"
       ELSE IF orientation > 157600 /\ orientation < 202500 THEN "S"
       ELSE IF orientation > 202600 /\ orientation < 247500 THEN "SSW"
       ELSE IF orientation > 247600 /\ orientation < 292500 THEN "W"
       ELSE IF orientation > 292600 /\ orientation < 337500 THEN "NNW"
       ELSE None

\* ---------------------------------------------------------- _get_direction
\* arctan(p / q) in thousandths of a degree for whole p, q >= 1, tabulated
\* for the ratios the grid can produce (rounded to the nearest thousandth;
\* no tabulated value is within a thousandth of a bound of _to_bearing).
ArctanRatio(p, q) ==
    LET g == Gcd(p, q)
        a == p \div g
        b == q \div g
    IN CASE a = 1 /\ b = 1 -> 45000
         [] a = 1 /\ b = 2 -> 26565
         [] a = 2 /\ b = 1 -> 63435
         [] a = 1 /\ b = 3 -> 18435
         [] a = 3 /\ b = 1 -> 71565
         [] a = 2 /\ b = 3 -> 33690
         [] a = 3 /\ b = 2 -> 56310
         [] a = 1 /\ b = 4 -> 14036
         [] a = 4 /\ b = 1 -> 75964
         [] a = 3 /\ b = 4 -> 36870
         [] a = 4 /\ b = 3 -> 53130

\* np.degrees(np.arctan2(y, x)): the angle of the point (x, y), in
\* (-180, 180] degrees for whole arguments.
ArctanDegrees(y, x) ==
    LET upper == \* the angle for |y|
            IF y = 0 THEN (IF x >= 0 THEN 0 ELSE 180000)
            ELSE IF x = 0 THEN 90000
            ELSE IF x > 0 THEN ArctanRatio(Abs(y), x)
            ELSE 180000 - ArctanRatio(Abs(y), -x)
    IN IF y < 0 THEN -upper ELSE upper

get_direction(start_coords, end_coords) ==
    LET delta_lon == end_coords[1] - start_coords[1]
        delta_lat == end_coords[2] - start_coords[2]
        angle == ArctanDegrees(delta_lon, delta_lat)
    IN to_bearing(angle)

\* ----------------------------------------------------------- _weighted_avg
\* Variant: conventional linear interpolation, the left reading weighted by
\* the distance to the right hour.
Interpolate_conventional(time, hours, set) ==
    TrueDivide((hours[2] - time) * set[1] + (time - hours[1]) * set[2],
               hours[2] - hours[1])

\* One side of _weighted_avg: the interpolation of a two-reading list at
\* `time` within `hours`.
Interpolate(time, hours, set) ==
    TrueDivide((time - hours[1]) * set[1] + (hours[2] - time) * set[2],
               hours[2] - hours[1])

\* [ok |-> TRUE, in_avg, out_avg], or [ok |-> FALSE] when indexing a list of
\* fewer than two readings raises IndexError.
weighted_avg(in_set, out_set) ==
    IF Len(in_set) < 2 \/ Len(out_set) < 2
    THEN [ok |-> FALSE]
    ELSE [ok |-> TRUE,
          in_avg |-> Interpolate(in_time, in_hours, in_set),
          out_avg |-> Interpolate(out_time, out_hours, out_set)]

\* ----------------------------------------------------------- build_results
\* The readings of metric m appended to its in list by the pass over the
\* day's timesteps: those of the timesteps whose hour is in in_hours.
InList(m) ==
    LET hit(time) == time.hour \in Range(in_hours)
        picked == SelectSeq(forecast, hit)
    IN [i \in 1..Len(picked) |-> Reading(m, picked[i])]

\* The readings appended to the out list: the elif branch, so only
\* timesteps whose hour is not in in_hours.
OutList(m) ==
    LET hit(time) == time.hour \notin Range(in_hours)
                     /\ time.hour \in Range(out_hours)
        picked == SelectSeq(forecast, hit)
    IN [i \in 1..Len(picked) |-> Reading(m, picked[i])]

\* The four assignments to self.results, metric i onwards, starting from the
\* mapping res: [ok, results], where results is what self.results holds when
\* the statements end or one of them raises.
RECURSIVE AssignFrom(_, _, _, _)
AssignFrom(i, ins, outs, res) ==
    IF i > Len(Metrics) THEN [ok |-> TRUE, results |-> res]
    ELSE LET m == Metrics[i]
             avg == weighted_avg(ins[m], outs[m])
         IN IF ~avg.ok THEN [ok |-> FALSE, results |-> res]
            ELSE AssignFrom(i + 1, ins, outs,
                     [k \in DOMAIN res \cup {InKey(m), OutKey(m)} |->
                         IF k = InKey(m) THEN avg.in_avg
                         ELSE IF k = OutKey(m) THEN avg.out_avg
                         ELSE res[k]])

\* Variant: each in value is computed and assigned before the out value of
\* the same metric is computed.
RECURSIVE AssignInFirst(_, _, _, _)
AssignInFirst(i, ins, outs, res) ==
    IF i > Len(Metrics) THEN [ok |-> TRUE, results |-> res]
    ELSE LET m == Metrics[i]
             with_in == [k \in DOMAIN res \cup {InKey(m)} |->
                            IF k = InKey(m)
                            THEN Interpolate(in_time, in_hours, ins[m])
                            ELSE res[k]]
             with_out == [k \in DOMAIN with_in \cup {OutKey(m)} |->
                            IF k = OutKey(m)
                            THEN Interpolate(out_time, out_hours, outs[m])
                            ELSE with_in[k]]
         IN IF Len(ins[m]) < 2 THEN [ok |-> FALSE, results |-> res]
            ELSE IF Len(outs[m]) < 2 THEN [ok |-> FALSE, results |-> with_in]
            ELSE AssignInFirst(i + 1, ins, outs, with_out)

build_results_in_first(ins, outs) == AssignInFirst(1, ins, outs, results)

build_results(ins, outs) == AssignFrom(1, ins, outs, results)

\* The five boxes produce_results prints.
Boxes == <<"commute", "rain", "temp", "wind", "gust">>

\* ------------------------------------------------------------------ actions
\* The state before Forecaster(...) is called: the arguments and the day the
\* provider will return are fixed, nothing is computed yet.  The commute
\* hours are whole, as in the repository's own calls (defaults 8 and 17,
\* in_time=7), so np.round(...).astype(int) leaves them as they are.  The
\* day's timesteps come in ascending hour order, possibly none.
Init ==
    /\ pc = "start"
    /\ home_coords = <<0, 0>>
    /\ work_coords \in Grid \X Grid
    /\ in_time \in TargetHours
    /\ out_time \in TargetHours
    /\ forecast \in Forecasts
    /\ timesteps = << >>
    /\ in_direction = None
    /\ out_direction = None
    /\ in_hours = NoBracket
    /\ out_hours = NoBracket
    /\ in_lists = NoLists
    /\ out_lists = NoLists
    /\ results = EmptyMap
    /\ console = << >>
    /\ csv_file = NoFile
    /\ angle_value = 0

\* Forecaster.__init__ with _variable_initalise: an IndexError of either
\* _either_side call ends the construction, after the assignments before it.
Construct ==
    /\ pc = "start"
    /\ LET steps == [i \in 1..Len(forecast) |-> forecast[i].hour]
           ins == either_side(in_time, steps)
           outs == either_side(out_time, steps)
       IN /\ timesteps' = steps
          /\ in_direction' = get_direction(home_coords, work_coords)
          /\ out_direction' = get_direction(work_coords, home_coords)
          /\ in_hours' = ins
          /\ out_hours' = IF ins = NoBracket THEN NoBracket ELSE outs
          /\ pc' = IF ins = NoBracket \/ outs = NoBracket
                   THEN "init_error" ELSE "constructed"
    /\ UNCHANGED <<home_coords, work_coords, in_time, out_time, forecast,
                   in_lists, out_lists, results, console, csv_file,
                   angle_value>>

\* Forecaster.produce_results(print, write), build_results included.
produce_results(print, write) ==
    /\ pc = "constructed"
    /\ LET ins == [m \in MetricSet |-> InList(m)]
           outs == [m \in MetricSet |-> OutList(m)]
           built == build_results(ins, outs)
       IN /\ in_lists' = ins
          /\ out_lists' = outs
          /\ results' = built.results
          /\ IF built.ok
             THEN /\ pc' = "done"
                  /\ console' = IF print THEN console \o Boxes ELSE console
                  /\ csv_file' = IF write THEN built.results ELSE csv_file
             ELSE /\ pc' = "build_error"
                  /\ UNCHANGED <<console, csv_file>>
    /\ UNCHANGED <<home_coords, work_coords, in_time, out_time, forecast,
                   timesteps, in_direction, out_direction, in_hours,
                   out_hours, angle_value>>

Next ==
    \/ Construct
    \/ \E print \in BOOLEAN, write \in BOOLEAN : produce_results(print, write)

Spec == Init /\ [][Next]_vars

\* --------------------------------------------- _weighted_avg on its own
AvgHours == 0..MaxAvgHour
AvgReadings == (-MaxVal)..MaxVal

\* A call of _weighted_avg for one metric with any target and any pair of
\* hours on each side and any two readings in_set; out_set is in_set
\* reversed and shifted, so that the two lists always differ.
InitAvg ==
    /\ pc = "avg_call"
    /\ home_coords = <<0, 0>>
    /\ work_coords = <<0, 0>>
    /\ in_time \in AvgHours
    /\ out_time \in AvgHours
    /\ forecast = << >>
    /\ timesteps = << >>
    /\ in_direction = None
    /\ out_direction = None
    /\ in_hours \in AvgHours \X AvgHours
    /\ out_hours \in AvgHours \X AvgHours
    /\ \E in_set \in AvgReadings \X AvgReadings :
          /\ in_lists = [m \in MetricSet |-> IF m = "rain" THEN in_set ELSE << >>]
          /\ out_lists = [m \in MetricSet |->
                            IF m = "rain" THEN <<in_set[2] + 1, in_set[1] - 1>>
                            ELSE << >>]
    /\ results = EmptyMap
    /\ console = << >>
    /\ csv_file = NoFile
    /\ angle_value = 0

apply_weighted_avg ==
    /\ pc = "avg_call"
    /\ LET avg == weighted_avg(in_lists["rain"], out_lists["rain"])
       IN /\ avg.ok
          /\ results' = [k \in {"in_rain", "out_rain"} |->
                            IF k = "in_rain" THEN avg.in_avg ELSE avg.out_avg]
    /\ pc' = "avg_done"
    /\ UNCHANGED <<home_coords, work_coords, in_time, out_time, forecast,
                   timesteps, in_direction, out_direction, in_hours,
                   out_hours, in_lists, out_lists, console, csv_file,
                   angle_value>>

NextAvg == apply_weighted_avg

SpecAvg == InitAvg /\ [][NextAvg]_vars

\* ----------------------------------------------- _to_bearing on its own
\* A call of _to_bearing with any angle of the 0.05-degree grid.
InitBearing ==
    /\ pc = "bearing_call"
    /\ home_coords = <<0, 0>>
    /\ work_coords = <<0, 0>>
    /\ in_time = 0
    /\ out_time = 0
    /\ forecast = << >>
    /\ timesteps = << >>
    /\ in_direction = None
    /\ out_direction = None
    /\ in_hours = NoBracket
    /\ out_hours = NoBracket
    /\ in_lists = NoLists
    /\ out_lists = NoLists
    /\ results = EmptyMap
    /\ console = << >>
    /\ csv_file = NoFile
    /\ angle_value \in {50 * k : k \in (-MaxAngleK)..MaxAngleK}

apply_to_bearing ==
    /\ pc = "bearing_call"
    /\ in_direction' = to_bearing(angle_value)
    /\ pc' = "bearing_done"
    /\ UNCHANGED <<home_coords, work_coords, in_time, out_time, forecast,
                   timesteps, out_direction, in_hours, out_hours, in_lists,
                   out_lists, results, console, csv_file, angle_value>>

NextBearing == apply_to_bearing

SpecBearing == InitBearing /\ [][NextBearing]_vars

\* =================================================================== claims
\* Helpers of the statements below.
Hours == [i \in 1..Len(forecast) |-> forecast[i].hour]
Built == pc \in {"done", "build_error"}
\* l and r are neighbours in the hour sequence, l first.
Adjacent(l, r) ==
    \E i \in 1..(Len(Hours) - 1) : Hours[i] = l /\ Hours[i + 1] = r
\* min(H) <= t < max(H).
Inside(t) ==
    /\ Hours # << >>
    /\ MinOf(Range(Hours)) <= t
    /\ t < MaxOf(Range(Hours))
\* t >= max(H).
PastLast(t) == Hours # << >> /\ t >= MaxOf(Range(Hours))
\* The reading of metric m at hour h of the day.
ReadingAt(m, h) ==
    Reading(m, forecast[CHOOSE i \in 1..Len(forecast) : forecast[i].hour = h])

\* C1: for an ascending hour sequence H and a target t with
\* min(H) <= t < max(H), _either_side returns a pair (l, r) of adjacent
\* elements of H with l <= t < r; checked for the commute-in and the
\* commute-out target of every constructed run.
C1_InsideBracket(t, bracket) ==
    /\ bracket # NoBracket
    /\ Adjacent(bracket[1], bracket[2])
    /\ bracket[1] <= t
    /\ t < bracket[2]
    /\ \A i \in 1..(Len(Hours) - 1) :
          (Hours[i] <= t /\ t < Hours[i + 1])
              => bracket = <<Hours[i], Hours[i + 1]>>
C1_BracketCorrect ==
    pc # "start" =>
        /\ Inside(in_time) => C1_InsideBracket(in_time, in_hours)
        /\ (Inside(out_time) /\ in_hours # NoBracket)
              => C1_InsideBracket(out_time, out_hours)
C1_Witness ==
    /\ pc = "constructed"
    /\ Len(timesteps) >= 3
    /\ Inside(in_time)
    /\ in_time \notin Range(timesteps)
    /\ in_hours[2] - in_hours[1] >= 2
    /\ Inside(out_time)

C3_Strict(t, bracket) ==
    (bracket # NoBracket /\ Inside(t)) =>
        /\ bracket[1] < t
        /\ t < bracket[2]
        /\ bracket[2] = MinOf({h \in Range(Hours) : h > t})
        /\ Adjacent(bracket[1], bracket[2])
C3_Shape(t, bracket) ==
    bracket # NoBracket =>
        /\ bracket[2] = MinOf({h \in Range(Hours) : h > t})
        /\ t >= Hours[1] =>
              /\ Adjacent(bracket[1], bracket[2])
              /\ bracket[1] <= t
              /\ t < bracket[2]
        /\ t < Hours[1] =>
              /\ bracket[2] = Hours[1]
              /\ bracket[1] = Hours[Len(Hours)]
C4_Boundary(time, hours, set, avg) ==
    hours[1] # hours[2] =>
        /\ time = hours[1] => avg = Whole(set[2])
        /\ time = hours[2] => avg = Whole(set[1])
C4_BoundaryEquality ==
    pc = "avg_done" =>
        /\ C4_Boundary(in_time, in_hours, in_lists["rain"], results["in_rain"])
        /\ C4_Boundary(out_time, out_hours, out_lists["rain"],
                       results["out_rain"])
C4_Witness ==
    /\ pc = "avg_done"
    /\ in_hours[1] # in_hours[2]
    /\ in_time = in_hours[2]
    /\ in_lists["rain"][1] # in_lists["rain"][2]
    /\ results["in_rain"] = Whole(in_lists["rain"][1])
    /\ out_hours[1] # out_hours[2]
    /\ out_time = out_hours[1]
    /\ out_lists["rain"][1] # out_lists["rain"][2]
    /\ results["out_rain"] = Whole(out_lists["rain"][2])

\* C5: when build_results fails nothing is printed, the file is not written
\* and self.results holds none of the 8 keys, never some of them; printing
\* and writing happen only after all four metrics are assigned.
C5_NoPartialResults ==
    /\ DOMAIN results \in {{}, ResultKeys}
    /\ pc = "build_error" =>
          /\ console = << >>
          /\ csv_file = NoFile
          /\ results = EmptyMap
    /\ (console # << >> \/ csv_file # NoFile) =>
          /\ pc = "done"
          /\ DOMAIN results = ResultKeys
C5_Witness ==
    /\ pc = "build_error"
    /\ Len(in_lists["rain"]) = 2
    /\ Len(out_lists["rain"]) = 1
    /\ results = EmptyMap

\* C6: _to_bearing maps 0 to N, 90 to E, 180 to S and 270 to W; an angle of
\* [0, 360) in a gap between two adjacent label ranges (22.5 to 22.6, 67.5 to
\* 67.6, ..., 292.5 to 292.6, and the single angle 337.5 between the NNW and
\* the second N range) gets no label; every other angle of [0, 360) gets one
\* of the 8 labels.
C6_DeadZone(a) ==
    \/ \E k \in 0..6 : 22500 + 45000 * k <= a /\ a <= 22600 + 45000 * k
    \/ a = 337500
C6_Bearing ==
    pc = "bearing_done" =>
        /\ angle_value = 0 => in_direction = "N"
        /\ angle_value = 90000 => in_direction = "E"
        /\ angle_value = 180000 => in_direction = "S"
        /\ angle_value = 270000 => in_direction = "W"
        /\ (0 <= angle_value /\ angle_value < 360000) =>
              IF C6_DeadZone(angle_value)
              THEN in_direction = None
              ELSE in_direction \in Labels
C6_Witness ==
    /\ pc = "bearing_done"
    /\ angle_value = 22550
    /\ in_direction = None

\* C7 as stated: whenever both brackets were found, build_results hands
\* _weighted_avg, for each metric, an in list and an out list of exactly two
\* readings, the one at the left bracket hour first and the one at the
\* right bracket hour second.  Stated for the targets with
\* min(H) <= target < max(H), where both brackets are pairs of adjacent hours.
C7_TwoReadingsEach ==
    (Built /\ Inside(in_time) /\ Inside(out_time)) =>
        \A m \in MetricSet :
            /\ in_lists[m] = <<ReadingAt(m, in_hours[1]),
                               ReadingAt(m, in_hours[2])>>
            /\ out_lists[m] = <<ReadingAt(m, out_hours[1]),
                                ReadingAt(m, out_hours[2])>>

\* C8 as stated: every interpolated value lies between the smaller and the
\* larger of the two readings it is computed from, with both weights
\* (time - left) and (right - time) non-negative and summing to right - left.
C8_Convex(time, hours, set, avg) ==
    LET lo == IF set[1] <= set[2] THEN set[1] ELSE set[2]
        hi == IF set[1] <= set[2] THEN set[2] ELSE set[1]
    IN /\ time - hours[1] >= 0
       /\ hours[2] - time >= 0
       /\ (time - hours[1]) + (hours[2] - time) = hours[2] - hours[1]
       /\ IsFinite(avg)
       /\ FracLeq(Whole(lo), avg)
       /\ FracLeq(avg, Whole(hi))
C8_ConvexCombination ==
    pc = "done" =>
        \A m \in MetricSet :
            /\ C8_Convex(in_time, in_hours, in_lists[m], results[InKey(m)])
            /\ C8_Convex(out_time, out_hours, out_lists[m],
                         results[OutKey(m)])

\* C9 as stated: for every bracket _either_side returns, right - left is
\* not zero, and it is 3 when the available hours are 3-hourly steps.
C9_ThreeHourly ==
    \A i \in 1..(Len(Hours) - 1) : Hours[i + 1] - Hours[i] = 3
C9_Divisor(bracket) ==
    bracket # NoBracket =>
        /\ bracket[2] - bracket[1] # 0
        /\ C9_ThreeHourly => bracket[2] - bracket[1] = 3
C9_DivisorNeverZero ==
    pc # "start" => C9_Divisor(in_hours) /\ C9_Divisor(out_hours)

\* C10: the direction label of any pair of coordinates is N, NNE, E, SSE, S
\* or no label, never SSW, W or NNW; a route due west and its reverse, due
\* east, both get the label E.
C10_DirectionLabels ==
    pc # "start" =>
        /\ in_direction \in {"N", "NNE", "E", "SSE", "S", None}
        /\ out_direction \in {"N", "NNE", "E", "SSE", "S", None}
        /\ (work_coords[1] < home_coords[1] /\ work_coords[2] = home_coords[2])
              => (in_direction = "E" /\ out_direction = "E")
C10_Witness ==
    /\ pc = "constructed"
    /\ work_coords[1] < home_coords[1]
    /\ work_coords[2] = home_coords[2]
    /\ in_direction = "E"
    /\ out_direction = in_direction

====
